---- MODULE Spec2Model ----
(***************************************************************************)
(* EIMS integration (Odoo module): the submission engine of account.move,  *)
(* the eims.log ledger, the eims.certificate store and the retry sweep.    *)
(*                                                                         *)
(* ORM operations are modelled on their face: write() is an assignment,    *)
(* search() a filter, a computed field the function its compute method    *)
(* states.  Every handler is one atomic action.  Strings are abstracted   *)
(* to tokens; a field that Odoo holds as False is None.                    *)
(***************************************************************************)
EXTENDS Integers, Sequences, FiniteSets, TLC

(* ------------------------------ bounds -------------------------------- *)
MaxLogs == 2         \* Spec: log entries, which is runs of send_to_eims
MaxAttempts == 2     \* SpecAttempt: the same

Invoices == {1, 2}
CertIds == {1, 2}
Companies == {1, 2}
None == "none"
IRNs == {"IRN1", "IRN2"}
ResponseTime == 120      \* a measured latency in ms, nonzero

VARIABLES
    moves,      \* account.move records: id -> fields
    logs,       \* eims.log records, in creation order
    certs,      \* eims.certificate records: id -> fields
    today,      \* fields.Date.today(), a day number
    last,       \* observation of the last handler run: its name and attempts
    triggers,   \* requests that run send_to_eims side by side, see SpecRace
    activations, \* requests that activate a certificate side by side
    config,     \* the attributes of the module utils/config.py
    sending     \* what a run of send_to_eims has read of them, see SpecConfig

vars == <<moves, logs, certs, today, last, triggers, activations, config,
          sending>>

(* ------------------------- eims.certificate --------------------------- *)

\* A Date field holds no date (False) or a day number.
NoDate == <<>>
Date(d) == <<d>>

\* a variant of is_expired that takes the day of expiry as expired
is_expired_on_the_day(cert, day) ==
    cert.expiry_date # NoDate /\ cert.expiry_date[1] <= day

\* _compute_is_expired: expiry_date and expiry_date < today
is_expired(cert, day) ==
    cert.expiry_date # NoDate /\ cert.expiry_date[1] < day

\* _compute_days_to_expiry: 0 when there is no expiry date
days_to_expiry(cert, day) ==
    IF cert.expiry_date # NoDate THEN cert.expiry_date[1] - day ELSE 0

\* _compute_is_expiring_soon: 0 <= delta.days <= 30
is_expiring_soon(cert, day) ==
    IF cert.expiry_date # NoDate
    THEN 0 <= cert.expiry_date[1] - day /\ cert.expiry_date[1] - day <= 30
    ELSE FALSE

\* search([('company_id','=',company),('is_active','=',True)], limit=1);
\* eims.certificate orders by create_date desc, ids grow with create_date.
\* 0 stands for the empty recordset.
search_active_certificate(cs, company) ==
    LET found == {c \in CertIds : cs[c].company_id = company /\ cs[c].is_active}
    IN  IF found = {} THEN 0
        ELSE CHOOSE c \in found : \A d \in found : d <= c

(* ---------------------- inputs of one attempt ------------------------- *)

\* What the world answers during one run of send_to_eims on one invoice.
\*   vat, name, lines : company_id.vat, partner_id.name, invoice_line_ids
\*   payload          : _prepare_eims_payload returns or raises
\*   files            : the key and certificate files open or are missing
\*   login            : auth.eims_login returns a token or raises
\*   sign             : signer.sign_request_sha512 returns or raises
\*   post             : requests.post raises or answers
\*   code, json       : response.status_code, response.json()
\*   irn, qr, signed  : body.irn, body.qrCode, body.signedInvoice
\*   render           : generate_qr_code returns an image or raises
\*   message, error, errors : the keys of the body of an error response;
\*                      message may be there and hold the empty string
\*   token            : data.accessToken of the answer to the login
\*   body_len         : len(response.text)
BaseOutcome ==
    [vat |-> TRUE, name |-> TRUE, lines |-> TRUE, payload |-> "ok",
     files |-> "ok", login |-> "ok", sign |-> "ok", post |-> "response",
     code |-> 200, json |-> "ok", irn |-> "IRN1", qr |-> TRUE,
     signed |-> TRUE, render |-> "ok",
     message |-> "absent", error |-> FALSE, errors |-> "absent",
     token |-> "T1", body_len |-> 5]

LoginResults == {"ok", "non200", "timeout", "connection", "no_token"}
PostResults == {"response", "timeout", "connection"}
JsonResults == {"ok", "malformed", "body_null"}
MessageField == {"absent", "empty", "nonempty"}
ErrorsField == {"absent", "empty", "nonempty"}

\* Every answer the model distinguishes: the baseline, every combination
\* of missing prerequisites, and every single deviating step after them.
AllOutcomes ==
    {[BaseOutcome EXCEPT !.vat = v, !.name = n, !.lines = l] :
        v \in BOOLEAN, n \in BOOLEAN, l \in BOOLEAN}
    \cup {[BaseOutcome EXCEPT !.payload = "raise"],
          [BaseOutcome EXCEPT !.files = "missing"],
          [BaseOutcome EXCEPT !.sign = "raise"]}
    \cup {[BaseOutcome EXCEPT !.login = r] : r \in LoginResults}
    \cup {[BaseOutcome EXCEPT !.post = r] : r \in PostResults}
    \cup {[BaseOutcome EXCEPT !.code = 500, !.json = "malformed"],
          [BaseOutcome EXCEPT !.code = 400, !.message = "nonempty"]}
    \cup {[BaseOutcome EXCEPT !.code = 500, !.message = m, !.error = e,
                              !.errors = es] :
            m \in MessageField, e \in BOOLEAN, es \in ErrorsField}
    \cup {[BaseOutcome EXCEPT !.json = j] : j \in JsonResults}
    \cup {[BaseOutcome EXCEPT !.irn = i, !.qr = q, !.signed = s] :
            i \in IRNs \cup {None}, q \in BOOLEAN, s \in BOOLEAN}
    \cup {[BaseOutcome EXCEPT !.render = "raise"]}
    \cup {[BaseOutcome EXCEPT !.token = "T2"]}
    \cup {[BaseOutcome EXCEPT !.code = 500, !.body_len = n] :
            n \in {200, 201, 500}}

\* One answer of every kind: what the handlers are driven with when they
\* run one after another.
Outcomes ==
    {BaseOutcome,
     [BaseOutcome EXCEPT !.irn = "IRN2", !.qr = FALSE, !.signed = FALSE],
     [BaseOutcome EXCEPT !.irn = None],
     [BaseOutcome EXCEPT !.vat = FALSE],
     [BaseOutcome EXCEPT !.files = "missing"],
     [BaseOutcome EXCEPT !.post = "timeout"],
     [BaseOutcome EXCEPT !.code = 500, !.message = "nonempty"]}

(* --------------------------- account.move ----------------------------- *)

\* F applied to the value of x, x evaluated once
With(x, F(_)) == CHOOSE y \in {F(v) : v \in {x}} : TRUE

\* recordset.write(vals): the named fields take the given values
write(rec, vals) ==
    [f \in DOMAIN rec |-> IF f \in DOMAIN vals THEN vals[f] ELSE rec[f]]

\* a variant of eims_can_retry that does not look at the status
eims_can_retry_in_any_status(m) ==
    /\ m.eims_irn = None
    /\ m.move_type = "out_invoice"

\* _compute_eims_can_retry
eims_can_retry(m) ==
    /\ m.eims_status \in {"failed", "error"}
    /\ m.eims_irn = None
    /\ m.move_type = "out_invoice"

\* _compute_eims_is_registered
eims_is_registered(m) ==
    m.eims_status = "ok" /\ m.eims_irn # None

\* _validate_eims_prerequisites: None when it returns, else the UserError
validate_eims_prerequisites(m, o, cs, day) ==
    LET c == search_active_certificate(cs, m.company_id)
    IN  IF ~o.vat THEN "Company VAT/TIN is required for EIMS integration"
        ELSE IF ~o.name THEN "Customer name is required for EIMS integration"
        ELSE IF ~o.lines THEN "Invoice must have at least one line item"
        ELSE IF c = 0 THEN "No active EIMS certificate found for company"
        ELSE IF is_expired(cs[c], day) THEN "EIMS certificate has expired"
        ELSE None

\* response.text[:200], as the number of characters it keeps
truncated(n) ==
    IF n <= 200 THEN n ELSE 200

\* f"HTTP {response.status_code}: {response.text[:200]}"
http_fallback(o) ==
    "HTTP " \o ToString(o.code) \o ": text[:" \o ToString(truncated(o.body_len))
            \o "]"

\* a variant of parse_eims_error that looks at error before message
parse_eims_error_error_first(o) ==
    IF o.json = "malformed" THEN http_fallback(o)
    ELSE IF o.error THEN "<error>"
    ELSE IF o.message # "absent"
    THEN IF o.message = "empty" THEN "" ELSE "<message>"
    ELSE IF o.errors = "nonempty" THEN "<errors[0]>"
    ELSE http_fallback(o)

\* _parse_eims_error: message, then error, then errors[0], then the fallback;
\* the fallback too when response.json() raises
parse_eims_error(o) ==
    IF o.json = "malformed" THEN http_fallback(o)
    ELSE IF o.message # "absent"
    THEN IF o.message = "empty" THEN "" ELSE "<message>"
    ELSE IF o.error THEN "<error>"
    ELSE IF o.errors = "nonempty" THEN "<errors[0]>"
    ELSE http_fallback(o)

\* a variant of _generate_qr_code without its try/except
generate_qr_code_uncaught(o) ==
    IF o.render = "ok" THEN "image" ELSE "raised"

\* _generate_qr_code: the image, or False when generate_qr_code raises
generate_qr_code(o) ==
    IF o.render = "ok" THEN "image" ELSE None

\* the log_vals send_to_eims starts from (an Integer field that is not
\* given reads 0)
new_log_vals(id) ==
    [move_id |-> id, state |-> "draft", request_json |-> None,
     response_json |-> None, http_status_code |-> 0,
     response_time_ms |-> 0, error_text |-> None, error_code |-> None,
     irn |-> None, qr_data |-> None]

\* a variant of failed_attempt that stamps the acknowledgement time too
failed_attempt_acknowledged(m, lg, msg, logins, posts) ==
    [move |-> write(m, [eims_status |-> "failed", eims_last_error |-> msg,
                        eims_error_message |-> msg, eims_ack_date |-> "now"]),
     log |-> write(lg, [state |-> "failed", error_text |-> msg]),
     raised |-> None, logins |-> logins, posts |-> posts,
     statuses |-> <<"failed">>]

\* the three handlers of send_to_eims that record a failure on the invoice
\* and in log_vals (Timeout, ConnectionError, Exception)
failed_attempt(m, lg, msg, logins, posts) ==
    [move |-> write(m, [eims_status |-> "failed", eims_last_error |-> msg,
                        eims_error_message |-> msg]),
     log |-> write(lg, [state |-> "failed", error_text |-> msg]),
     raised |-> None, logins |-> logins, posts |-> posts,
     statuses |-> <<"failed">>]

\* except UserError: raise -- nothing more is written; finally creates the log
user_error(m, lg, msg, logins, posts) ==
    [move |-> m, log |-> lg, raised |-> msg, logins |-> logins, posts |-> posts,
     statuses |-> <<>>]

\* a variant of is_http_ok that takes a server error as accepted too
is_http_ok_or_500(o) ==
    o.code \in {200, 500}

\* if response.status_code == 200
is_http_ok(o) ==
    o.code = 200

\* a variant of update_vals that leaves the reference number out
update_vals_without_irn(o) ==
    LET v1 == [eims_status |-> "ok", eims_ack_date |-> "now",
               eims_sent_json |-> "final_payload"]
        v3 == IF o.qr THEN v1 @@ [eims_qr_image |-> generate_qr_code(o)]
              ELSE v1
    IN  IF o.signed THEN v3 @@ [eims_signed_invoice |-> "signed"] ELSE v3

\* update_vals of the 200 branch: status, acknowledgement time and the final
\* payload, and of irn, QR image and signed invoice those the body gave
update_vals(o) ==
    LET v1 == [eims_status |-> "ok", eims_ack_date |-> "now",
               eims_sent_json |-> "final_payload"]
        v2 == IF o.irn # None THEN v1 @@ [eims_irn |-> o.irn] ELSE v1
        v3 == IF o.qr THEN v2 @@ [eims_qr_image |-> generate_qr_code(o)]
              ELSE v2
    IN  IF o.signed THEN v3 @@ [eims_signed_invoice |-> "signed"] ELSE v3

\* a variant of rejected that writes the status error, which the selection
\* of eims_status has, in place of failed
rejected_as_error(m, lg, o) ==
    LET msg == parse_eims_error(o)
    IN  [move |-> write(m, [eims_status |-> "error", eims_last_error |-> msg,
                            eims_error_message |-> msg]),
         log |-> write(lg, [state |-> "failed", error_text |-> msg,
                            error_code |-> ToString(o.code)]),
         raised |-> None, logins |-> 1, posts |-> 1, statuses |-> <<"error">>]

\* the else branch of Step 7: the answer has a status other than 200
rejected(m, lg, o) ==
    LET msg == parse_eims_error(o)
    IN  [move |-> write(m, [eims_status |-> "failed", eims_last_error |-> msg,
                            eims_error_message |-> msg]),
         log |-> write(lg, [state |-> "failed", error_text |-> msg,
                            error_code |-> ToString(o.code)]),
         raised |-> None, logins |-> 1, posts |-> 1, statuses |-> <<"failed">>]

\* Step 7 of send_to_eims, on a response of requests.post. An exception
\* that left _generate_qr_code would reach except Exception of send_to_eims.
process_response(m, lg0, o) ==
    LET lg == write(lg0, [response_json |-> "text",
                          http_status_code |-> o.code,
                          response_time_ms |-> ResponseTime])
    IN  IF is_http_ok(o)
        THEN IF o.json = "malformed"
             THEN failed_attempt(m, lg, "EIMS integration failed: " \o "Expecting value", 1, 1)
             ELSE IF o.json = "body_null"
             THEN failed_attempt(m, lg, "EIMS integration failed: " \o "'NoneType' object has no attribute 'get'", 1, 1)
             ELSE IF o.qr /\ generate_qr_code(o) = "raised"
             THEN failed_attempt(m, lg, "EIMS integration failed: " \o "QR rendering failed", 1, 1)
             ELSE
               [move |-> write(m, update_vals(o)),
                log |-> write(lg, [state |-> "ok", irn |-> o.irn,
                                   qr_data |-> IF o.qr THEN "qr" ELSE None]),
                raised |-> None, logins |-> 1, posts |-> 1,
                statuses |-> <<"ok">>]
        ELSE rejected(m, lg, o)

\* request_obj of eims_login: the credentials
request_obj ==
    [clientId |-> "client_id", clientSecret |-> "client_secret",
     apikey |-> "apikey", tin |-> "tin"]

\* full_payload of eims_login: the credentials, the signature over their
\* canonical form and the encoded certificate
full_payload ==
    [request |-> request_obj,
     signature |-> "sign_request_sha512(canonicalize_json(request_obj))",
     certificate |-> "encode_certificate(certificate)"]

\* json= of the requests.post of eims_login: the body that is sent
login_json == request_obj

\* a variant of eims_login that returns a token although the answer has no
\* data.accessToken
eims_login_lenient(o) ==
    CASE o.login = "ok" -> None
      [] o.login = "non200" -> "EIMS login failed: EIMS login failed: 500 text"
      [] o.login = "no_token" -> None
      [] o.login = "timeout" -> "EIMS login request timed out after 30 seconds"
      [] o.login = "connection" -> "EIMS login connection error: refused"

\* auth.eims_login: None when it returns a token, else the message of the
\* exception it raises
eims_login(o) ==
    CASE o.login = "ok" -> None
      [] o.login = "non200" -> "EIMS login failed: EIMS login failed: 500 text"
      [] o.login = "no_token" ->
            "EIMS login failed: EIMS login response missing data.accessToken"
      [] o.login = "timeout" -> "EIMS login request timed out after 30 seconds"
      [] o.login = "connection" -> "EIMS login connection error: refused"

\* Steps 3 to 6 of send_to_eims, after the payload is in log_vals
submit(m, lg, o) ==
    IF o.files = "missing"
    THEN user_error(m, lg, "Certificate or key file not found", 0, 0)
    ELSE IF eims_login(o) # None
    THEN failed_attempt(m, lg, "EIMS integration failed: " \o eims_login(o), 1, 0)
    ELSE IF o.sign # "ok"
    THEN failed_attempt(m, lg, "EIMS integration failed: " \o "Could not deserialize key data", 1, 0)
    ELSE IF o.post = "timeout"
    THEN failed_attempt(m, lg, "EIMS request timed out", 1, 1)
    ELSE IF o.post = "connection"
    THEN failed_attempt(m, lg, "EIMS connection error: refused", 1, 1)
    ELSE process_response(m, lg, o)

\* a variant of send_one that writes pending and leaves the error fields as
\* they are
send_one_keeping_error(m0, id, o, cs, day) ==
    LET m == write(m0, [eims_status |-> "pending"])
        lg == new_log_vals(id)
        v == validate_eims_prerequisites(m, o, cs, day)
    IN  IF v # None THEN user_error(m, lg, v, 0, 0)
        ELSE IF o.payload # "ok"
        THEN failed_attempt(m, lg, "EIMS integration failed: " \o "'bool' object has no attribute 'strftime'", 0, 0)
        ELSE submit(m, write(lg, [request_json |-> "payload"]), o)

\* The body of the loop of send_to_eims for one invoice: the invoice and
\* the log entry it leaves, the UserError it raises (None when it returns),
\* the login and submission requests it sent, and the statuses it wrote
\* after the first write of pending.
send_one(m0, id, o, cs, day) ==
    LET m == write(m0, [eims_status |-> "pending", eims_last_error |-> None,
                        eims_error_message |-> None])
        lg == new_log_vals(id)
        v == validate_eims_prerequisites(m, o, cs, day)
    IN  IF v # None THEN user_error(m, lg, v, 0, 0)
        ELSE IF o.payload # "ok"
        THEN failed_attempt(m, lg, "EIMS integration failed: " \o "'bool' object has no attribute 'strftime'", 0, 0)
        ELSE submit(m, write(lg, [request_json |-> "payload"]), o)

(* ------------------- handlers, as state transformers ------------------ *)

\* A world is what a handler reads and writes: the invoices and the log;
\* with them it carries what the handler has done so far: atts, its runs of
\* the loop body of send_to_eims, and trail, its writes of eims_status as
\* <<invoice, status before, status written>>.

status_trail(id, from, statuses) ==
    [j \in 1..Len(statuses) |->
        <<id, IF j = 1 THEN from ELSE statuses[j - 1], statuses[j]>>]

\* a variant of authorization that sends a token kept from before
authorization_cached(token) ==
    "Bearer " \o "T1"

\* 'Authorization': f'Bearer {token}', token what eims_login just returned
authorization(token) ==
    "Bearer " \o token

\* One pass of the loop body of send_to_eims, its finally clause included:
\* the log entry is created whatever happened, create_date the day it is.
attempt(w, id, o, cs, day) ==
    With(send_one(w.moves[id], id, o, cs, day), LAMBDA r :
        [moves |-> [w.moves EXCEPT ![id] = r.move],
         logs |-> Append(w.logs, r.log @@ [create_date |-> day]),
         atts |-> Append(w.atts, [inv |-> id, o |-> o, raised |-> r.raised,
                                  logins |-> r.logins, posts |-> r.posts,
                                  status |-> r.move.eims_status,
                                  error |-> r.move.eims_last_error,
                                  irn |-> r.move.eims_irn,
                                  login_keys |-> IF r.logins = 1
                                                 THEN DOMAIN login_json
                                                 ELSE {},
                                  bearer |-> IF r.posts = 1
                                             THEN authorization(o.token)
                                             ELSE None]),
         trail |-> w.trail \o status_trail(id, w.moves[id].eims_status,
                                           <<"pending">> \o r.statuses)])

\* send_to_eims on the recordset ids (a sequence), from its k-th record on:
\* a UserError leaves the loop, the records after it are not processed.
RECURSIVE send_to_eims_from(_, _, _, _, _, _)
send_to_eims_from(w, ids, k, outs, cs, day) ==
    IF k > Len(ids) THEN [w |-> w, raised |-> None]
    ELSE With(attempt(w, ids[k], outs[ids[k]], cs, day), LAMBDA w1 :
           With(w1.atts[Len(w1.atts)].raised, LAMBDA e :
             IF e # None THEN [w |-> w1, raised |-> e]
             ELSE send_to_eims_from(w1, ids, k + 1, outs, cs, day)))

send_to_eims(w, ids, outs, cs, day) ==
    send_to_eims_from(w, ids, 1, outs, cs, day)

\* a variant of in_scope that takes every invoice of the jurisdiction, of
\* whatever move type
in_scope_of_any_type(m) ==
    m.country = "ET"

\* the condition of action_post: an outbound customer invoice of a company
\* whose country is Ethiopia
in_scope(m) ==
    m.move_type = "out_invoice" /\ m.country = "ET"

\* a variant of post_one without the try/except around send_to_eims
post_one_uncaught(w, id, o, cs, day) ==
    LET m == w.moves[id]
    IN  IF in_scope(m) /\ m.eims_irn = None
        THEN send_to_eims(w, <<id>>, [i \in {id} |-> o], cs, day)
        ELSE [w |-> w, raised |-> None]

\* the loop body of action_post for one invoice, after super().action_post():
\* whatever send_to_eims raises is caught and recorded on the invoice
post_one(w, id, o, cs, day) ==
    LET m == w.moves[id]
    IN  IF in_scope(m)
        THEN IF m.eims_irn # None THEN [w |-> w, raised |-> None]
             ELSE LET r == send_to_eims(w, <<id>>, [i \in {id} |-> o], cs, day)
                  IN  IF r.raised = None THEN r
                      ELSE [w |-> [r.w EXCEPT
                              !.moves[id] =
                                 write(@, [eims_status |-> "failed",
                                           eims_last_error |-> r.raised,
                                           eims_error_message |-> r.raised]),
                              !.trail = Append(@, <<id, r.w.moves[id].eims_status,
                                                    "failed">>)],
                            raised |-> None]
        ELSE [w |-> w, raised |-> None]

\* the loop of action_post: an exception that leaves the loop body ends it
RECURSIVE post_from(_, _, _, _, _, _)
post_from(w, ids, k, outs, cs, day) ==
    IF k > Len(ids) THEN [w |-> w, raised |-> None]
    ELSE With(post_one(w, ids[k], outs[ids[k]], cs, day), LAMBDA r :
           IF r.raised # None THEN r
           ELSE post_from(r.w, ids, k + 1, outs, cs, day))

\* super().action_post(): the invoices become posted
super_action_post(w, ids) ==
    [w EXCEPT !.moves = [i \in Invoices |->
        IF \E k \in 1..Len(ids) : ids[k] = i
        THEN [w.moves[i] EXCEPT !.state = "posted"] ELSE w.moves[i]]]

action_post(w, ids, outs, cs, day) ==
    post_from(super_action_post(w, ids), ids, 1, outs, cs, day)

\* AccountMove.action_retry_eims: raises when the invoice cannot be retried,
\* and turns whatever send_to_eims raises into a UserError
action_retry_eims(w, id, o, cs, day) ==
    IF ~eims_can_retry(w.moves[id])
    THEN [w |-> w, raised |-> "This invoice cannot be retried for EIMS integration"]
    ELSE LET r == send_to_eims(w, <<id>>, [i \in {id} |-> o], cs, day)
         IN  IF r.raised = None THEN r
             ELSE [w |-> r.w,
                   raised |-> "Could not retry EIMS integration: " \o r.raised]

\* EimsLog.action_retry_invoice on the log entry lg: the exception of
\* send_to_eims ends in a notification, nothing is raised
action_retry_invoice(w, lg, o, cs, day) ==
    LET id == lg.move_id
        w1 == [w EXCEPT
                 !.moves[id] =
                    write(@, [eims_status |-> "draft", eims_last_error |-> None]),
                 !.trail = Append(@, <<id, w.moves[id].eims_status, "draft">>)]
    IN  send_to_eims(w1, <<id>>, [i \in {id} |-> o], cs, day).w

\* a variant of retry_domain that asks for the status error in place of
\* failed
retry_domain_of_errors(m) ==
    /\ m.move_type = "out_invoice"
    /\ m.state = "posted"
    /\ m.eims_status = "error"
    /\ m.eims_irn = None
    /\ m.country = "ET"

\* the domain of the search of retry_failed_eims_invoices
retry_domain(m) ==
    /\ m.move_type = "out_invoice"
    /\ m.state = "posted"
    /\ m.eims_status = "failed"
    /\ m.eims_irn = None
    /\ m.country = "ET"

\* search() returns account.move in its _order, which ends in id desc
RECURSIVE search_moves(_, _)
search_moves(ms, n) ==
    IF n = 0 THEN <<>>
    ELSE IF n \in Invoices /\ retry_domain(ms[n])
    THEN <<n>> \o search_moves(ms, n - 1)
    ELSE search_moves(ms, n - 1)

\* a variant of retried that counts the invoice whatever send_to_eims did
retried_always(raised) ==
    IF raised = None THEN 1 ELSE 1

\* retry_count += 1 comes after invoice.send_to_eims(): it is reached when
\* the call returned, not when it raised
retried(raised) ==
    IF raised = None THEN 1 ELSE 0

\* a variant of retry_one that does not look at the certificate
retry_one_unchecked(w, id, o, cs, day) ==
    With(send_to_eims(w, <<id>>, [i \in {id} |-> o], cs, day), LAMBDA r :
      [w |-> r.w, retried |-> retried(r.raised)])

\* the loop body of retry_failed_eims_invoices for one invoice: the world
\* after it and what it adds to retry_count; what send_to_eims raises is
\* logged
retry_one(w, id, o, cs, day) ==
    LET c == search_active_certificate(cs, w.moves[id].company_id)
    IN  IF c = 0 \/ is_expired(cs[c], day) THEN [w |-> w, retried |-> 0]
        ELSE With(send_to_eims(w, <<id>>, [i \in {id} |-> o], cs, day),
                  LAMBDA r : [w |-> r.w, retried |-> retried(r.raised)])

\* the loop over failed_invoices from the k-th on, retry_count being n
RECURSIVE retry_from(_, _, _, _, _, _, _)
retry_from(w, n, ids, k, outs, cs, day) ==
    IF k > Len(ids) THEN w @@ [retry_count |-> n]
    ELSE With(retry_one(w, ids[k], outs[ids[k]], cs, day), LAMBDA r :
           retry_from(r.w, n + r.retried, ids, k + 1, outs, cs, day))

\* retry_failed_eims_invoices: the world after it, with the retry_count it
\* reports
retry_failed_eims_invoices(w, outs, cs, day) ==
    retry_from(w, 0, search_moves(w.moves, Cardinality(Invoices)), 1, outs,
               cs, day)

\* eims.certificate write({'is_active': v}) on one record, with the
\* constraint _check_active_certificate_per_company: the write is rejected
\* (raised is set and the store is unchanged) when the record is active and
\* another certificate of its company is active too
write_is_active(cs, c, v) ==
    LET cs1 == [cs EXCEPT ![c].is_active = v]
        existing_active == {d \in CertIds :
            /\ cs1[d].company_id = cs1[c].company_id
            /\ cs1[d].is_active
            /\ d # c}
    IN  IF cs1[c].is_active /\ existing_active # {}
        THEN [certs |-> cs, raised |-> "Only one active certificate is allowed per company"]
        ELSE [certs |-> cs1, raised |-> None]

\* a variant of alert_type that calls the eighth day critical too
alert_type_late(days) ==
    IF days <= 8 THEN "critical"
    ELSE IF days <= 15 THEN "warning"
    ELSE IF days <= 30 THEN "info"
    ELSE None

\* the if/elif chain of check_certificate_expiry on days_to_expiry
alert_type(days) ==
    IF days <= 7 THEN "critical"
    ELSE IF days <= 15 THEN "warning"
    ELSE IF days <= 30 THEN "info"
    ELSE None

\* a variant of expiring_certificates whose search takes a record without
\* expiry date too
expiring_certificates_or_undated(cs, day) ==
    {c \in CertIds : /\ cs[c].is_active
                     /\ \/ cs[c].expiry_date = NoDate
                        \/ /\ cs[c].expiry_date[1] <= day + 30
                           /\ cs[c].expiry_date[1] > day}

\* search([('is_active','=',True), ('expiry_date','<=',today+30),
\*         ('expiry_date','>',today)])
expiring_certificates(cs, day) ==
    {c \in CertIds : /\ cs[c].is_active
                     /\ cs[c].expiry_date # NoDate
                     /\ cs[c].expiry_date[1] <= day + 30
                     /\ cs[c].expiry_date[1] > day}

\* a variant of expired_certificates that takes the day of expiry as expired
expired_certificates_on_the_day(cs, day) ==
    {c \in CertIds : /\ cs[c].is_active
                     /\ cs[c].expiry_date # NoDate
                     /\ cs[c].expiry_date[1] <= day}

\* search([('is_active','=',True), ('expiry_date','<',today)])
expired_certificates(cs, day) ==
    {c \in CertIds : /\ cs[c].is_active
                     /\ cs[c].expiry_date # NoDate
                     /\ cs[c].expiry_date[1] < day}

\* a recordset of eims.certificate in its _order, create_date desc
RECURSIVE in_order(_)
in_order(S) ==
    IF S = {} THEN <<>>
    ELSE LET c == CHOOSE c \in S : \A d \in S : d <= c
         IN  <<c>> \o in_order(S \ {c})

\* check_certificate_expiry: the calls of _send_certificate_alert it makes,
\* in order, and the certificates as it leaves them
check_certificate_expiry(cs, day) ==
    LET expiring == in_order(expiring_certificates(cs, day))
        expired == in_order(expired_certificates(cs, day))
    IN  [alerts |->
           [k \in 1..Len(expiring) |->
              [cert |-> expiring[k],
               alert_type |-> alert_type(days_to_expiry(cs[expiring[k]], day)),
               days |-> days_to_expiry(cs[expiring[k]], day)]]
           \o [k \in 1..Len(expired) |->
                 [cert |-> expired[k], alert_type |-> "expired", days |-> 0]],
         certs |->
           [c \in CertIds |->
              IF c \in expired_certificates(cs, day)
              THEN [cs[c] EXCEPT !.is_active = FALSE] ELSE cs[c]]]

(* ------------------------------ the system ---------------------------- *)

RecordSets == {<<1>>, <<2>>, <<1, 2>>, <<2, 1>>}
Range(seq) == {seq[k] : k \in 1..Len(seq)}

new_move(company, move_type, country) ==
    [company_id |-> company, move_type |-> move_type, country |-> country,
     state |-> "draft", eims_status |-> "draft", eims_irn |-> None,
     eims_error_message |-> None, eims_last_error |-> None,
     eims_qr_image |-> None, eims_signed_invoice |-> None,
     eims_ack_date |-> None, eims_sent_json |-> None]

ExpiryDates == {NoDate, Date(-1), Date(0)}

(* --------------------------- utils/config.py -------------------------- *)

\* The attributes of the module config that send_to_eims reads through
\* cfg = config. A value is named by where it comes from: the constant
\* written in config.py, or what a form holds.
ConfigAttributes ==
    {"EIMS_CLIENT_ID", "EIMS_CLIENT_SECRET", "EIMS_API_KEY", "EIMS_TIN",
     "EIMS_LOGIN_URL", "EIMS_INVOICE_SUBMIT_URL", "EIMS_PRIVATE_KEY_PATH",
     "EIMS_CERTIFICATE_PATH", "EIMS_TIMEOUT", "EIMS_VERIFY_SSL"}

\* the module as it is imported
ModuleConfig == [a \in ConfigAttributes |-> "config.py"]

\* what the settings form or the wizard may hold
FormValues == {"config.py", "form A", "form B"}

\* no run of send_to_eims is under way
NotSending == [pc |-> "idle", read |-> <<>>]

\* no handler has run yet; alerts are the calls of _send_certificate_alert,
\* calls the calls of a function of utils with what they returned,
\* block the setting eims_integration.block_on_error as action_post found it
NoneRan ==
    [op |-> "init", atts |-> <<>>, trail |-> <<>>, raised |-> None,
     alerts |-> <<>>, block |-> FALSE, calls |-> <<>>]

World == [moves |-> moves, logs |-> logs, atts |-> <<>>, trail |-> <<>>]

\* a handler ran: its effects and what it did
Ran(op, w, raised) ==
    /\ moves' = w.moves
    /\ logs' = w.logs
    /\ last' = [NoneRan EXCEPT !.op = op, !.atts = w.atts, !.trail = w.trail,
                                 !.raised = raised]
    /\ UNCHANGED <<certs, today, triggers, activations, config, sending>>

\* the requests that run side by side: two of each kind
Workers == {1, 2}

\* no request is running: pc is where each request stands, o the answers
\* the world gives it, sent the requests whose submission is under way or
\* over, accepted the submissions the authority answered 200 with an irn
NoTriggers ==
    [pc |-> [w \in Workers |-> "idle"],
     kind |-> [w \in Workers |-> None],
     o |-> [w \in Workers |-> BaseOutcome],
     accepted |-> 0]

\* no activation is running: cert is the record the request writes
NoActivations ==
    [pc |-> [w \in Workers |-> "idle"],
     cert |-> [w \in Workers |-> 0]]

Init ==
    /\ \E a \in {<<1, "out_invoice", "ET">>, <<2, "out_invoice", "ET">>,
                  <<1, "in_invoice", "ET">>, <<1, "out_invoice", "KE">>} :
         moves = [i \in Invoices |->
                    IF i = 1 THEN new_move(1, "out_invoice", "ET")
                    ELSE new_move(a[1], a[2], a[3])]
    /\ logs = <<>>
    /\ \E a \in {0} \cup CertIds, e \in ExpiryDates :
         /\ a # 1 => e = NoDate
         /\ certs = [c \in CertIds |->
                       IF c = 1
                       THEN [company_id |-> 1, is_active |-> (a = 1),
                             expiry_date |-> e]
                       ELSE [company_id |-> 1, is_active |-> (a = 2),
                             expiry_date |-> Date(7)]]
    /\ today = 0
    /\ last = NoneRan
    /\ triggers = NoTriggers
    /\ activations = NoActivations
    /\ config = ModuleConfig
    /\ sending = NotSending

\* The handlers as actions: the recordsets rs they may be called on, the
\* answers outs the world may give, and the number of log entries up to
\* which they are run.
\* action_post runs under either value of the setting block_on_error
\* (res.config.settings); it does not read it.

PostOn(rs, outs, bound) ==
    \E ids \in rs :
      /\ Len(logs) + Len(ids) <= bound
      /\ \A i \in Range(ids) : moves[i].state = "draft"
      /\ \E os \in [Range(ids) -> outs], block \in BOOLEAN :
           \E r \in {action_post(World, ids, os, certs, today)} :
             /\ moves' = r.w.moves
             /\ logs' = r.w.logs
             /\ last' = [NoneRan EXCEPT !.op = "action_post",
                                          !.atts = r.w.atts,
                                          !.trail = r.w.trail,
                                          !.raised = r.raised,
                                          !.block = block]
             /\ UNCHANGED <<certs, today, triggers, activations, config, sending>>

SendOn(rs, outs, bound) ==
    \E ids \in rs :
      /\ Len(logs) + Len(ids) <= bound
      /\ \E os \in [Range(ids) -> outs] :
           LET r == send_to_eims(World, ids, os, certs, today)
           IN  Ran("send_to_eims", r.w, r.raised)

\* action_retry_eims is for one record (ensure_one); calls keeps which. A
\* call that is refused adds no log entry and is run beyond the bound too.
RetryEimsOn(rs, outs, bound) ==
    \E ids \in rs, o \in outs :
      /\ Len(ids) = 1
      /\ Len(logs) < bound \/ ~eims_can_retry(moves[ids[1]])
      /\ \E r \in {action_retry_eims(World, ids[1], o, certs, today)} :
           /\ moves' = r.w.moves
           /\ logs' = r.w.logs
           /\ last' = [NoneRan EXCEPT !.op = "action_retry_eims",
                                        !.atts = r.w.atts,
                                        !.trail = r.w.trail,
                                        !.raised = r.raised,
                                        !.calls = <<[id |-> ids[1]]>>]
           /\ UNCHANGED <<certs, today, triggers, activations, config,
                          sending>>

RetryInvoiceOn(rs, outs, bound) ==
    /\ Len(logs) < bound
    /\ \E l \in 1..Len(logs), o \in outs :
         /\ <<logs[l].move_id>> \in rs
         /\ Ran("action_retry_invoice",
                action_retry_invoice(World, logs[l], o, certs, today), None)

SweepOn(outs, bound) ==
    LET found == {i \in Invoices : retry_domain(moves[i])}
    IN  /\ Len(logs) + Cardinality(found) <= bound
        /\ \E os \in [found -> outs] :
             \E w \in {retry_failed_eims_invoices(World, os, certs, today)} :
               /\ moves' = w.moves
               /\ logs' = w.logs
               /\ last' = [NoneRan EXCEPT
                             !.op = "retry_failed_eims_invoices",
                             !.atts = w.atts, !.trail = w.trail,
                             !.calls = <<[retry_count |-> w.retry_count]>>]
               /\ UNCHANGED <<certs, today, triggers, activations, config,
                              sending>>

(* Spec: the handlers one after another, on both invoices *)

ActionPost == PostOn(RecordSets, Outcomes, MaxLogs)
SendToEims == SendOn(RecordSets, Outcomes, MaxLogs)
ActionRetryEims == RetryEimsOn(RecordSets, Outcomes, MaxLogs)
ActionRetryInvoice == RetryInvoiceOn(RecordSets, Outcomes, MaxLogs)
RetryFailedEimsInvoices == SweepOn(Outcomes, MaxLogs)

Next ==
    \/ ActionPost
    \/ SendToEims
    \/ ActionRetryEims
    \/ ActionRetryInvoice
    \/ RetryFailedEimsInvoices

Spec == Init /\ [][Next]_vars

(* SpecAttempt: runs on invoice 1 of which the last, the MaxAttempts-th,   *)
(* gets every answer the model distinguishes                               *)

AttemptOutcomes ==
    IF Len(logs) + 1 >= MaxAttempts THEN AllOutcomes ELSE Outcomes

InitAttempt ==
    /\ Init
    /\ moves[2] = new_move(1, "out_invoice", "ET")

AttemptPost == PostOn({<<1>>}, AttemptOutcomes, MaxAttempts)
AttemptSend == SendOn({<<1>>}, AttemptOutcomes, MaxAttempts)
AttemptRetryEims == RetryEimsOn({<<1>>}, AttemptOutcomes, MaxAttempts)
AttemptRetryInvoice == RetryInvoiceOn({<<1>>}, AttemptOutcomes, MaxAttempts)
AttemptSweep == SweepOn(AttemptOutcomes, MaxAttempts)

NextAttempt ==
    \/ AttemptPost
    \/ AttemptSend
    \/ AttemptRetryEims
    \/ AttemptRetryInvoice
    \/ AttemptSweep

SpecAttempt == InitAttempt /\ [][NextAttempt]_vars

(* the certificate handlers *)

ActionActivate ==
    \E c \in CertIds :
      LET r == write_is_active(certs, c, TRUE)
      IN  /\ certs' = r.certs
          /\ last' = [NoneRan EXCEPT !.op = "action_activate",
                                       !.raised = r.raised]
          /\ UNCHANGED <<moves, logs, today, triggers, activations, config, sending>>

ActionDeactivate ==
    \E c \in CertIds :
      LET r == write_is_active(certs, c, FALSE)
      IN  /\ certs' = r.certs
          /\ last' = [NoneRan EXCEPT !.op = "action_deactivate",
                                       !.raised = r.raised]
          /\ UNCHANGED <<moves, logs, today, triggers, activations, config, sending>>

(* SpecRace: invoice 1 is posted, then two requests, each a manual retry  *)
(* or a sweep, run on it side by side.  The code takes no lock and makes   *)
(* no conditional write: what a request read when it decided to submit    *)
(* may be stale by the time it submits.  A request is three steps: the     *)
(* check (eims_can_retry, or the domain and the certificate of the sweep), *)
(* the start of send_to_eims up to requests.post, and the rest of          *)
(* send_to_eims once the answer is there.                                  *)

TriggerKinds == {"action_retry_eims", "retry_failed_eims_invoices"}

\* the invoice the requests of SpecRace are about
RacedInvoice == 1

\* action_retry_eims reads eims_can_retry; the sweep reads its domain and
\* the certificate of the company
TriggerCheck(w) ==
    /\ triggers.pc[w] = "idle"
    /\ \E kind \in TriggerKinds :
         LET m == moves[RacedInvoice]
             c == search_active_certificate(certs, m.company_id)
             go == IF kind = "action_retry_eims" THEN eims_can_retry(m)
                   ELSE retry_domain(m) /\ c # 0 /\ ~is_expired(certs[c], today)
         IN  triggers' = [triggers EXCEPT
                            !.pc[w] = IF go THEN "checked" ELSE "done",
                            !.kind[w] = kind]
    /\ UNCHANGED <<moves, logs, certs, today, last, activations, config, sending>>

\* send_to_eims from its first write to requests.post: the invoice becomes
\* pending; when the prerequisites, the files, the login and the signature
\* let it, the submission request goes out and the authority answers it
TriggerSubmit(w) ==
    /\ triggers.pc[w] = "checked"
    /\ \E o \in Outcomes :
         LET r == send_one(moves[RacedInvoice], RacedInvoice, o, certs, today)
             ok == r.posts = 1 /\ o.post = "response" /\ o.code = 200
                   /\ o.irn # None
         IN  /\ triggers' = [triggers EXCEPT
                               !.pc[w] = IF r.posts = 1 THEN "sent" ELSE "unsent",
                               !.o[w] = o,
                               !.accepted = IF ok THEN @ + 1 ELSE @]
             /\ moves' = [moves EXCEPT ![RacedInvoice] =
                            write(@, [eims_status |-> "pending",
                                      eims_last_error |-> None,
                                      eims_error_message |-> None])]
    /\ UNCHANGED <<logs, certs, today, last, activations, config, sending>>

\* the rest of send_to_eims: the outcome is written to the invoice and the
\* log entry is created
TriggerFinish(w) ==
    /\ triggers.pc[w] \in {"sent", "unsent"}
    /\ \E w1 \in {attempt(World, RacedInvoice, triggers.o[w], certs, today)} :
         /\ moves' = w1.moves
         /\ logs' = w1.logs
         /\ last' = [NoneRan EXCEPT !.op = triggers.kind[w],
                                      !.atts = w1.atts,
                                      !.trail = w1.trail,
                                      !.raised = w1.atts[Len(w1.atts)].raised]
    /\ triggers' = [triggers EXCEPT !.pc[w] = "done"]
    /\ UNCHANGED <<certs, today, activations, config, sending>>

RacePost == PostOn({<<RacedInvoice>>}, Outcomes, 1)
RaceCheck == \E w \in Workers : TriggerCheck(w)
RaceSubmit == \E w \in Workers : TriggerSubmit(w)
RaceFinish == \E w \in Workers : TriggerFinish(w)

NextRace ==
    \/ RacePost
    \/ RaceCheck
    \/ RaceSubmit
    \/ RaceFinish

SpecRace == InitAttempt /\ [][NextRace]_vars

(* SpecCert: the certificate store.  Certificates are activated and        *)
(* deactivated, days pass, the expiry sweep runs; and two requests         *)
(* activate certificates side by side.  Such a request is a transaction:   *)
(* its write and the search of the constraint see the store as it is when  *)
(* the request runs, together with its own write; the write reaches the    *)
(* store when the request ends.  Nothing is checked again at that point:   *)
(* the model declares no constraint in the database.                       *)

MaxDay == 1     \* SpecCert: the days that pass

\* the days of expiry of the certificates of SpecCert, relative to day 0
SweptExpiryDates ==
    {NoDate} \cup {Date(d) : d \in {-1, 0, 1, 7, 8, 15, 16, 20, 30, 31, 45}}

InitCert ==
    /\ moves = [i \in Invoices |-> new_move(1, "out_invoice", "ET")]
    /\ logs = <<>>
    /\ \E e1 \in SweptExpiryDates, e2 \in {NoDate, Date(-1), Date(7), Date(45)},
          co \in Companies, a1 \in BOOLEAN, a2 \in BOOLEAN :
         /\ co = 1 => ~(a1 /\ a2)
         /\ certs = [c \in CertIds |->
                       IF c = 1
                       THEN [company_id |-> 1, is_active |-> a1,
                             expiry_date |-> e1]
                       ELSE [company_id |-> co, is_active |-> a2,
                             expiry_date |-> e2]]
    /\ today = 0
    /\ last = NoneRan
    /\ triggers = NoTriggers
    /\ activations = NoActivations
    /\ config = ModuleConfig
    /\ sending = NotSending

\* the cron job check_certificate_expiry
CheckCertificateExpiry ==
    \E r \in {check_certificate_expiry(certs, today)} :
      /\ certs' = r.certs
      /\ last' = [NoneRan EXCEPT !.op = "check_certificate_expiry",
                                   !.alerts = r.alerts]
      /\ UNCHANGED <<moves, logs, today, triggers, activations, config, sending>>

\* a day passes
Tick ==
    /\ today < MaxDay
    /\ today' = today + 1
    /\ last' = [NoneRan EXCEPT !.op = "tick"]
    /\ UNCHANGED <<moves, logs, certs, triggers, activations, config, sending>>

\* a request runs action_activate on an inactive certificate: the write and
\* the constraint, on the store as the request sees it
ActivationBegin(w) ==
    /\ activations.pc[w] = "idle"
    /\ \E c \in CertIds :
         /\ ~certs[c].is_active
         /\ activations' =
              [activations EXCEPT
                 !.pc[w] = IF write_is_active(certs, c, TRUE).raised = None
                           THEN "written" ELSE "rejected",
                 !.cert[w] = c]
    /\ UNCHANGED <<moves, logs, certs, today, last, config, sending>>
    /\ UNCHANGED triggers

\* the request ends: its write reaches the store
ActivationEnd(w) ==
    /\ activations.pc[w] = "written"
    /\ certs' = [certs EXCEPT ![activations.cert[w]].is_active = TRUE]
    /\ activations' = [activations EXCEPT !.pc[w] = "done"]
    /\ last' = [NoneRan EXCEPT !.op = "action_activate"]
    /\ UNCHANGED <<moves, logs, today, triggers, config, sending>>

ConcurrentActivationBegin == \E w \in Workers : ActivationBegin(w)
ConcurrentActivationEnd == \E w \in Workers : ActivationEnd(w)

NextCert ==
    \/ ActionActivate
    \/ ActionDeactivate
    \/ CheckCertificateExpiry
    \/ Tick
    \/ ConcurrentActivationBegin
    \/ ConcurrentActivationEnd

SpecCert == InitCert /\ [][NextCert]_vars

(* ------------------------- utils/signer.py ---------------------------- *)

\* JSON values, all of one shape: a string, an integer or a mapping; a
\* mapping holds its items, <<key, value>>, in insertion order as a dict does
str_value(s) == [kind |-> "str", str |-> s, int |-> 0, items |-> <<>>]
int_value(n) == [kind |-> "int", str |-> "", int |-> n, items |-> <<>>]
dict_value(items) == [kind |-> "dict", str |-> "", int |-> 0, items |-> items]

\* the keys of the mappings, in the order in which sorted() puts them
KeyOrder == <<"a", "b">>
KeySet == Range(KeyOrder)
key_rank(k) == CHOOSE i \in 1..Len(KeyOrder) : KeyOrder[i] = k

\* the string "1" and the number 1
Atoms == {str_value("1"), int_value(1)}

\* the sequences of distinct keys: the insertion orders of a mapping
InsertionOrders ==
    {s \in UNION {[1..n -> KeySet] : n \in 0..Len(KeyOrder)} :
        \A i, j \in 1..Len(s) : i # j => s[i] # s[j]}

\* the mappings with values in vals, in every insertion order
Mappings(vals) ==
    {dict_value(it) : it \in
        UNION {{[i \in 1..Len(s) |-> <<s[i], f[i]>>] : f \in [1..Len(s) -> vals]} :
                 s \in InsertionOrders}}

\* the mappings given to canonicalize_json: two levels of nesting
Payloads == Mappings(Atoms \cup Mappings(Atoms))

\* sorted(dct.items()) of json.dumps under sort_keys=True
sorted_items(items) ==
    SortSeq(items, LAMBDA x, y : key_rank(x[1]) < key_rank(y[1]))

\* json.dumps(v, separators=(item_sep, key_sep), sort_keys=sort_keys): the
\* text, as the sequence of its lexemes. A string comes in quotes, a number in
\* digits, a mapping in braces with item_sep between its items and key_sep
\* between a key and its value.
RECURSIVE dumps(_, _, _, _)
RECURSIVE dumps_items(_, _, _, _, _)
dumps(v, item_sep, key_sep, sort_keys) ==
    CASE v.kind = "str" -> <<"\"" \o v.str \o "\"">>
      [] v.kind = "int" -> <<ToString(v.int)>>
      [] v.kind = "dict" ->
            <<"{">>
            \o dumps_items(IF sort_keys THEN sorted_items(v.items) ELSE v.items,
                           1, item_sep, key_sep, sort_keys)
            \o <<"}">>

dumps_items(items, k, item_sep, key_sep, sort_keys) ==
    IF k > Len(items) THEN <<>>
    ELSE (IF k > 1 THEN <<item_sep>> ELSE <<>>)
         \o <<"\"" \o items[k][1] \o "\"", key_sep>>
         \o dumps(items[k][2], item_sep, key_sep, sort_keys)
         \o dumps_items(items, k + 1, item_sep, key_sep, sort_keys)

\* a variant of canonicalize_json without sort_keys
canonicalize_json_unsorted(data) ==
    dumps(data, ",", ":", FALSE)

\* canonicalize_json: json.dumps(data, separators=(',', ':'), sort_keys=True);
\* the text is ASCII (ensure_ascii), .encode('utf-8') gives it byte for byte
canonicalize_json(data) ==
    dumps(data, ",", ":", TRUE)

\* the value a mapping holds under key k
value_of(d, k) ==
    d.items[CHOOSE i \in 1..Len(d.items) : d.items[i][1] = k][2]

keys_of(d) == {d.items[i][1] : i \in 1..Len(d.items)}

\* dict.__eq__: the same keys with the same values, whatever the insertion
\* order, at every level
RECURSIVE same_content(_, _)
same_content(v, w) ==
    /\ v.kind = w.kind
    /\ v.str = w.str
    /\ v.int = w.int
    /\ keys_of(v) = keys_of(w)
    /\ \A k \in keys_of(v) : same_content(value_of(v, k), value_of(w, k))

\* b has the keys of a in the insertion order of a, and another value than
\* a under exactly one of them
differs_in_value(a, b) ==
    /\ Len(a.items) = Len(b.items)
    /\ \A i \in 1..Len(a.items) : a.items[i][1] = b.items[i][1]
    /\ Cardinality({i \in 1..Len(a.items) :
                      ~same_content(a.items[i][2], b.items[i][2])}) = 1

\* the arguments of two calls of canonicalize_json that are to come
Arguments(a, b) ==
    [NoneRan EXCEPT !.calls = <<[data |-> a, bytes |-> <<>>],
                                [data |-> b, bytes |-> <<>>]>>]

\* the two mappings are drawn, either of the same content or with another
\* value under one key; nothing else is in the database
InitCanon ==
    /\ moves = [i \in Invoices |-> new_move(1, "out_invoice", "ET")]
    /\ logs = <<>>
    /\ certs = [c \in CertIds |-> [company_id |-> 1, is_active |-> FALSE,
                                    expiry_date |-> NoDate]]
    /\ today = 0
    /\ triggers = NoTriggers
    /\ activations = NoActivations
    /\ config = ModuleConfig
    /\ sending = NotSending
    /\ \E a \in Payloads :
         \E b \in {p \in Payloads : same_content(a, p) \/ differs_in_value(a, p)} :
           last = Arguments(a, b)

\* the two calls of canonicalize_json
Canonicalized ==
    /\ last.op = "init"
    /\ last' = [last EXCEPT !.op = "canonicalize_json",
                  !.calls = [k \in 1..2 |->
                               [data |-> last.calls[k].data,
                                bytes |-> canonicalize_json(last.calls[k].data)]]]
    /\ UNCHANGED <<moves, logs, certs, today, triggers, activations, config, sending>>

\* on two mappings of the same content
CanonicalizeSameContent ==
    /\ same_content(last.calls[1].data, last.calls[2].data)
    /\ Canonicalized

\* on two mappings of which the second has another value
CanonicalizeOtherValue ==
    /\ differs_in_value(last.calls[1].data, last.calls[2].data)
    /\ Canonicalized

NextCanon ==
    \/ CanonicalizeSameContent
    \/ CanonicalizeOtherValue

SpecCanon == InitCanon /\ [][NextCanon]_vars

(* ------------------------- eims.log: retention ------------------------ *)

\* the values of days_to_keep cleanup_old_logs is called with; 90 is its
\* default
RetentionDays == {0, 1, 90}

\* the domain of the search of cleanup_old_logs: created before the cutoff
\* and of state ok or failed
is_old_log(lg, day, days_to_keep) ==
    /\ lg.create_date < day - days_to_keep
    /\ lg.state \in {"ok", "failed"}

\* a variant of cleanup_old_logs whose search does not look at the state
cleanup_old_logs_of_any_state(lgs, day, days_to_keep) ==
    [logs |-> SelectSeq(lgs, LAMBDA lg : ~(lg.create_date < day - days_to_keep)),
     count |-> Cardinality({n \in 1..Len(lgs) :
                              lgs[n].create_date < day - days_to_keep})]

\* cleanup_old_logs: unlinks what the search found and returns how many
cleanup_old_logs(lgs, day, days_to_keep) ==
    [logs |-> SelectSeq(lgs, LAMBDA lg : ~is_old_log(lg, day, days_to_keep)),
     count |-> Cardinality({n \in 1..Len(lgs) :
                              is_old_log(lgs[n], day, days_to_keep)})]

\* perform_health_check: the success rate over the recent entries, below
\* 80% an alert; it only reads the log
perform_health_check(lgs, day) ==
    LET recent == {n \in 1..Len(lgs) : lgs[n].create_date >= day - 1}
        good == {n \in recent : lgs[n].state = "ok"}
    IN  recent # {} /\ 100 * Cardinality(good) < 80 * Cardinality(recent)

InitLog ==
    /\ InitAttempt
    /\ certs[1].is_active
    /\ certs[1].expiry_date = NoDate

LogSend == SendOn({<<1>>}, Outcomes, MaxLogs)
LogRetryInvoice == RetryInvoiceOn({<<1>>}, Outcomes, MaxLogs)
LogSweep == SweepOn(Outcomes, MaxLogs)

CleanupOldLogs ==
    \E keep \in RetentionDays :
      \E r \in {cleanup_old_logs(logs, today, keep)} :
        /\ logs' = r.logs
        /\ last' = [NoneRan EXCEPT !.op = "cleanup_old_logs",
                      !.calls = <<[days_to_keep |-> keep, count |-> r.count]>>]
        /\ UNCHANGED <<moves, certs, today, triggers, activations, config, sending>>

PerformHealthCheck ==
    /\ last' = [NoneRan EXCEPT !.op = "perform_health_check",
                  !.calls = <<[alert |-> perform_health_check(logs, today)]>>]
    /\ UNCHANGED <<moves, logs, certs, today, triggers, activations, config, sending>>

NextLog ==
    \/ LogSend
    \/ LogRetryInvoice
    \/ LogSweep
    \/ CleanupOldLogs
    \/ PerformHealthCheck
    \/ Tick

SpecLog == InitLog /\ [][NextLog]_vars

(* ------------------ eims.certificate: create and write ---------------- *)

\* What pfx_file and pfx_password hold together: a bundle that opens and
\* holds a certificate valid until a day, a file that is no PKCS#12 bundle,
\* a bundle under another password, a bundle without a certificate.
Bundle(kind, day) == [kind |-> kind, not_valid_after |-> day]
Bundles ==
    {Bundle("valid", d) : d \in {-1, 7}}
    \cup {Bundle(k, 0) : k \in {"malformed", "wrong_password", "no_certificate"}}

\* _extract_certificate_expiry: the expiry date, or the ValidationError it
\* turns every failure into
extract_certificate_expiry(pfx) ==
    IF pfx.kind = "valid"
    THEN [date |-> Date(pfx.not_valid_after), raised |-> None]
    ELSE [date |-> NoDate,
          raised |-> "Could not extract certificate expiry date: " \o pfx.kind]

\* _compute_expiry_date: False when the extraction raises
compute_expiry_date(pfx) ==
    IF extract_certificate_expiry(pfx).raised = None
    THEN extract_certificate_expiry(pfx).date
    ELSE NoDate

\* a variant of validate_certificate without the except ValidationError
validate_certificate_strict(pfx) ==
    extract_certificate_expiry(pfx).raised

\* the try/except of create and of write around _extract_certificate_expiry:
\* the ValidationError is logged; None, as nothing leaves it
validate_certificate(pfx) ==
    IF extract_certificate_expiry(pfx).raised # None THEN None ELSE None

\* _check_active_certificate_per_company on the k-th record of cs
check_active_certificate_per_company(cs, k) ==
    IF /\ cs[k].is_active
       /\ \E j \in 1..Len(cs) :
            j # k /\ cs[j].company_id = cs[k].company_id /\ cs[j].is_active
    THEN "Only one active certificate is allowed per company"
    ELSE None

\* create: super().create() stores the record with its computed expiry date
\* and checks the constraint; then the validation
certificate_create(cs, vals) ==
    LET cs1 == Append(cs, [company_id |-> vals.company_id,
                           is_active |-> vals.is_active,
                           pfx |-> vals.pfx,
                           expiry_date |-> compute_expiry_date(vals.pfx)])
    IN  IF check_active_certificate_per_company(cs1, Len(cs1)) # None
        THEN [certs |-> cs,
              raised |-> check_active_certificate_per_company(cs1, Len(cs1))]
        ELSE IF validate_certificate(vals.pfx) # None
        THEN [certs |-> cs, raised |-> validate_certificate(vals.pfx)]
        ELSE [certs |-> cs1, raised |-> None]

\* write of pfx_file and pfx_password on the k-th record: super().write()
\* recomputes the expiry date (the constraint does not depend on these
\* fields); then the validation
certificate_write(cs, k, pfx) ==
    LET cs1 == [cs EXCEPT ![k].pfx = pfx,
                          ![k].expiry_date = compute_expiry_date(pfx)]
    IN  IF validate_certificate(pfx) # None
        THEN [certs |-> cs, raised |-> validate_certificate(pfx)]
        ELSE [certs |-> cs1, raised |-> None]

InitBundle ==
    /\ moves = [i \in Invoices |-> new_move(1, "out_invoice", "ET")]
    /\ logs = <<>>
    /\ certs = <<>>
    /\ today = 0
    /\ last = NoneRan
    /\ triggers = NoTriggers
    /\ activations = NoActivations
    /\ config = ModuleConfig
    /\ sending = NotSending

CertificateRan(op, r, vals) ==
    /\ certs' = r.certs
    /\ last' = [NoneRan EXCEPT !.op = op, !.raised = r.raised,
                                 !.calls = <<vals>>]
    /\ UNCHANGED <<moves, logs, today, triggers, activations, config, sending>>

CertificateCreate ==
    /\ Len(certs) < Cardinality(CertIds)
    /\ \E co \in Companies, act \in BOOLEAN, pfx \in Bundles :
         CertificateRan("create",
                        certificate_create(certs, [company_id |-> co,
                                                   is_active |-> act,
                                                   pfx |-> pfx]),
                        [id |-> Len(certs) + 1, pfx |-> pfx])

CertificateWrite ==
    \E k \in 1..Len(certs), pfx \in Bundles :
      CertificateRan("write", certificate_write(certs, k, pfx),
                     [id |-> k, pfx |-> pfx])

NextBundle ==
    \/ CertificateCreate
    \/ CertificateWrite

SpecBundle == InitBundle /\ [][NextBundle]_vars

(* --------------- the connection tests and utils/config.py ------------- *)

\* config.X = self.x, for the attributes in set: the form's value v
assign_config(cfg, set, v) ==
    [a \in ConfigAttributes |-> IF a \in set THEN v ELSE cfg[a]]

\* action_test_eims_connection of the settings assigns all ten attributes
SettingsAttributes == ConfigAttributes

\* action_test_connection of the wizard assigns eight: not the two paths
WizardAttributes ==
    ConfigAttributes \ {"EIMS_PRIVATE_KEY_PATH", "EIMS_CERTIFICATE_PATH"}

\* the assignments with which both connection tests begin
action_test_connection(cfg, set, v) ==
    assign_config(cfg, set, v)

\* what send_to_eims reads of cfg for Steps 3 and 4: the two paths, the
\* credentials, the login URL and the timeout
LoginAttributes ==
    ConfigAttributes \ {"EIMS_INVOICE_SUBMIT_URL", "EIMS_VERIFY_SSL"}

\* and for Step 6: the submission URL, the timeout and the TLS flag
PostAttributes == {"EIMS_INVOICE_SUBMIT_URL", "EIMS_TIMEOUT", "EIMS_VERIFY_SSL"}

read_config(cfg, set) == [a \in set |-> cfg[a]]

InitConfig ==
    /\ moves = [i \in Invoices |-> new_move(1, "out_invoice", "ET")]
    /\ logs = <<>>
    /\ certs = [c \in CertIds |-> [company_id |-> 1, is_active |-> FALSE,
                                    expiry_date |-> NoDate]]
    /\ today = 0
    /\ last = NoneRan
    /\ triggers = NoTriggers
    /\ activations = NoActivations
    /\ config = ModuleConfig
    /\ sending = NotSending

TestConnection(op, set) ==
    \E v \in FormValues :
      /\ config' = action_test_connection(config, set, v)
      /\ last' = [NoneRan EXCEPT !.op = op, !.calls = <<[form |-> v]>>]
      /\ UNCHANGED <<moves, logs, certs, today, triggers, activations, sending>>

ActionTestEimsConnection ==
    TestConnection("action_test_eims_connection", SettingsAttributes)

ActionTestConnection ==
    TestConnection("action_test_connection", WizardAttributes)

\* a run of send_to_eims loads the files and logs in
SendingLogin ==
    /\ sending.pc = "idle"
    /\ sending' = [pc |-> "logged in",
                   read |-> <<read_config(config, LoginAttributes)>>]
    /\ UNCHANGED <<moves, logs, certs, today, last, triggers, activations,
                   config>>

\* and later posts the invoice
SendingPost ==
    /\ sending.pc = "logged in"
    /\ sending' = NotSending
    /\ last' = [NoneRan EXCEPT !.op = "send_to_eims",
                  !.calls = sending.read
                            \o <<read_config(config, PostAttributes)>>]
    /\ UNCHANGED <<moves, logs, certs, today, triggers, activations, config>>

NextConfig ==
    \/ ActionTestEimsConnection
    \/ ActionTestConnection
    \/ SendingLogin
    \/ SendingPost

SpecConfig == InitConfig /\ [][NextConfig]_vars

(* ------------- a certificate whose expiry date is not known ----------- *)

\* company 1 has an active certificate without expiry date; invoices are
\* posted and swept, the expiry sweep runs, days pass
InitUndated ==
    /\ InitAttempt
    /\ certs[1].is_active
    /\ certs[1].expiry_date = NoDate

UndatedPost == PostOn(RecordSets, Outcomes, MaxLogs)
UndatedSweep == SweepOn(Outcomes, MaxLogs)

NextUndated ==
    \/ UndatedPost
    \/ UndatedSweep
    \/ CheckCertificateExpiry
    \/ Tick

SpecUndated == InitUndated /\ [][NextUndated]_vars

(* ------------------- a sweep over two failed invoices ----------------- *)

\* a posted invoice whose submission timed out
failed_move(company) ==
    [new_move(company, "out_invoice", "ET") EXCEPT
       !.state = "posted", !.eims_status = "failed",
       !.eims_last_error = "EIMS request timed out",
       !.eims_error_message = "EIMS request timed out"]

\* both invoices have failed, the log entries of those attempts are past
\* retention and gone; company 1 has an active certificate
InitSweep ==
    /\ moves = [i \in Invoices |-> failed_move(1)]
    /\ logs = <<>>
    /\ certs = [c \in CertIds |-> [company_id |-> 1, is_active |-> (c = 1),
                                    expiry_date |-> Date(7)]]
    /\ today = 0
    /\ last = NoneRan
    /\ triggers = NoTriggers
    /\ activations = NoActivations
    /\ config = ModuleConfig
    /\ sending = NotSending

SweepBoth == SweepOn(AllOutcomes, MaxLogs)

NextSweep == SweepBoth

SpecSweep == InitSweep /\ [][NextSweep]_vars

(* ------------------------------ claims -------------------------------- *)

\* the submission state of an invoice
eims_fields(m) ==
    <<m.eims_status, m.eims_irn, m.eims_last_error, m.eims_error_message,
      m.eims_ack_date, m.eims_qr_image, m.eims_signed_invoice, m.eims_sent_json>>

\* the runs of the loop body of send_to_eims the last handler made on invoice i
AttemptsOn(l, i) == {k \in 1..Len(l.atts) : l.atts[k].inv = i}

\* C1: between handlers, an invoice with a reference number has status ok,
\* and an invoice with status failed has no reference number.
C1_ReferenceImpliesSuccess ==
    \A i \in Invoices :
      /\ moves[i].eims_irn # None => moves[i].eims_status = "ok"
      /\ moves[i].eims_status = "failed" => moves[i].eims_irn = None

\* C2: a handler run on an invoice that already has a reference number sends
\* no login and no submission request for it and leaves its submission state
\* as it was.
C2_RegisteredInvoiceIsNoOp ==
    [][\A i \in Invoices :
         moves[i].eims_irn # None =>
           /\ eims_fields(moves'[i]) = eims_fields(moves[i])
           /\ \A k \in AttemptsOn(last', i) :
                last'.atts[k].logins = 0 /\ last'.atts[k].posts = 0]_vars

\* C3: a reference number, once set, is never changed or cleared.
C3_ReferenceImmutable ==
    [][\A i \in Invoices :
         moves[i].eims_irn # None => moves'[i].eims_irn = moves[i].eims_irn]_vars

\* C4: every change of eims_status a handler writes is one of draft->pending,
\* pending->ok, pending->failed, failed->pending.
C4_StatusMachine ==
    \A k \in 1..Len(last.trail) :
      \/ last.trail[k][2] = last.trail[k][3]
      \/ <<last.trail[k][2], last.trail[k][3]>> \in
            {<<"draft", "pending">>, <<"pending", "ok">>,
             <<"pending", "failed">>, <<"failed", "pending">>}

\* C5: an attempt ends with status ok only if the login returned a token,
\* the submission request was answered with HTTP 200 and the body of the
\* answer parsed as JSON.
C5_SuccessOnlyAfterParsed200 ==
    \A k \in 1..Len(last.atts) :
      last.atts[k].status = "ok" =>
        /\ last.atts[k].o.login = "ok"
        /\ last.atts[k].o.post = "response"
        /\ last.atts[k].o.code = 200
        /\ last.atts[k].o.json # "malformed"

\* an attempt that was answered 200 with a parsed body and ended ok
C5_Witness ==
    \E k \in 1..Len(last.atts) :
      /\ last.atts[k].status = "ok"
      /\ last.atts[k].posts = 1
      /\ last.atts[k].o.code = 200
      /\ last.atts[k].o.json = "ok"

\* C6: an invoice with status ok has a reference number.
C6_SuccessHasReference ==
    \A i \in Invoices :
      moves[i].eims_status = "ok" => moves[i].eims_irn # None

\* C7: an attempt that does not end with status ok ends with status failed
\* and a non-empty eims_last_error.
C7_NonSuccessEndsFailed ==
    \A k \in 1..Len(last.atts) :
      last.atts[k].status # "ok" =>
        /\ last.atts[k].status = "failed"
        /\ last.atts[k].error \notin {None, ""}

\* C8: a handler appends one log entry per attempt, for the invoice of the
\* attempt; the entry of an attempt that raised a UserError has state
\* failed and none of http_status_code, response_time_ms, response_json.
C8_OneLogPerAttempt ==
    [][/\ Len(logs') = Len(logs) + Len(last'.atts)
       /\ \A k \in 1..Len(last'.atts) :
            LET lg == logs'[Len(logs) + k]
            IN  /\ lg.move_id = last'.atts[k].inv
                /\ last'.atts[k].raised # None =>
                     /\ lg.state = "failed"
                     /\ lg.http_status_code = 0
                     /\ lg.response_time_ms = 0
                     /\ lg.response_json = None]_vars

\* the messages of _validate_eims_prerequisites
PrerequisiteErrors ==
    {"Company VAT/TIN is required for EIMS integration",
     "Customer name is required for EIMS integration",
     "Invoice must have at least one line item",
     "No active EIMS certificate found for company",
     "EIMS certificate has expired"}

\* the active certificates of the company of invoice i
ActiveCertificates(i) ==
    {c \in CertIds : certs[c].company_id = moves[i].company_id
                     /\ certs[c].is_active}

C10_ValidationErrorNotSwept ==
    [][\A i \in Invoices :
         (\E k \in AttemptsOn(last, i) :
             /\ last.atts[k].raised # None
             /\ \A j \in AttemptsOn(last, i) : j <= k)
         => ~(/\ last'.op = "retry_failed_eims_invoices"
              /\ AttemptsOn(last', i) # {})]_vars

\* invoice i is failed without a reference number and its company has an
\* active certificate that is not expired
FailedWithCertificate(i) ==
    /\ moves[i].eims_status = "failed"
    /\ moves[i].eims_irn = None
    /\ \E c \in ActiveCertificates(i) :
         ~(certs[c].expiry_date # NoDate /\ certs[c].expiry_date[1] < today)

\* the log entries a step appended for invoice i
NewLogsOn(i) ==
    {k \in (Len(logs) + 1)..Len(logs') : logs'[k].move_id = i}

\* what a sweep does to the invoices in the set sel and to the others: one
\* attempt for each invoice of sel; no attempt, no log entry and no change
\* for any other
SweepAttemptsExactly(sel) ==
    last'.op = "retry_failed_eims_invoices" =>
      \A i \in Invoices :
        IF i \in sel
        THEN Cardinality(AttemptsOn(last', i)) = 1
        ELSE /\ AttemptsOn(last', i) = {}
             /\ NewLogsOn(i) = {}
             /\ moves'[i] = moves[i]

C12_SweptInvoiceStaysSelected ==
    last.op = "retry_failed_eims_invoices" =>
      \A k \in 1..Len(last.atts) :
        last.atts[k].status # "ok" =>
          /\ moves[last.atts[k].inv].eims_status = "failed"
          /\ retry_domain(moves[last.atts[k].inv])

\* C13: two requests on one invoice never have their submissions under way
\* at the same time, and the authority never accepts the invoice twice.
C13_NoDoubleSubmission ==
    /\ Cardinality({w \in Workers : triggers.pc[w] = "sent"}) <= 1
    /\ triggers.accepted <= 1

\* C14: every company has at most one active certificate, at any time and
\* whatever the order in which the steps of concurrent activations fall.
C14_OneActivePerCompany ==
    \A co \in Companies :
      Cardinality({c \in CertIds : certs[c].company_id = co
                                   /\ certs[c].is_active}) <= 1

\* the alerts the last handler sent about certificate c
AlertsAbout(l, c) ==
    {k \in 1..Len(l.alerts) : l.alerts[k].cert = c}

\* C15: the expiry sweep sends, for an active certificate, one alert:
\* expired when its day of expiry is before today, critical at 1 to 7 days
\* to expiry, warning at 8 to 15, info at 16 to 30; none beyond 30 days.
C15_ExpiryClassification ==
    [][last'.op = "check_certificate_expiry" =>
         \A c \in CertIds :
           certs[c].is_active /\ certs[c].expiry_date # NoDate =>
             LET d == certs[c].expiry_date[1] - today
                 sent == {last'.alerts[k].alert_type : k \in AlertsAbout(last', c)}
             IN  /\ Cardinality(AlertsAbout(last', c)) <= 1
                 /\ d < 0 => sent = {"expired"}
                 /\ 1 <= d /\ d <= 7 => sent = {"critical"}
                 /\ 8 <= d /\ d <= 15 => sent = {"warning"}
                 /\ 16 <= d /\ d <= 30 => sent = {"info"}
                 /\ d > 30 => sent = {}]_vars

\* a sweep that called one certificate critical at 7 days and another one
\* expired
C15_Witness ==
    /\ last.op = "check_certificate_expiry"
    /\ \E j, k \in 1..Len(last.alerts) :
         /\ last.alerts[j].alert_type = "critical"
         /\ last.alerts[j].days = 7
         /\ last.alerts[k].alert_type = "expired"

\* C16: the expiry sweep deactivates the active certificates whose day of
\* expiry is before today and changes no other certificate, so that no
\* active certificate is expired after it; a second sweep right after the
\* first one changes nothing.
C16_SweepDeactivatesExpired ==
    [][last'.op = "check_certificate_expiry" =>
         /\ \A c \in CertIds :
              certs'[c] =
                IF /\ certs[c].is_active
                   /\ certs[c].expiry_date # NoDate
                   /\ certs[c].expiry_date[1] < today
                THEN [certs[c] EXCEPT !.is_active = FALSE]
                ELSE certs[c]
         /\ \A c \in CertIds :
              certs'[c].is_active =>
                ~(certs'[c].expiry_date # NoDate
                  /\ certs'[c].expiry_date[1] < today')
         /\ last.op = "check_certificate_expiry" => certs' = certs]_vars

\* a sweep that has deactivated an expired certificate
C16_Witness ==
    /\ last.op = "check_certificate_expiry"
    /\ \E k \in 1..Len(last.alerts) :
         /\ last.alerts[k].alert_type = "expired"
         /\ ~certs[last.alerts[k].cert].is_active
         /\ certs[last.alerts[k].cert].expiry_date[1] < today

\* C17: with block_on_error off, action_post raises nothing, every invoice
\* it attempted is posted, and one whose attempt did not end ok is failed
\* with eims_last_error set.
C17_PostingSurvivesFailure ==
    last.op = "action_post" /\ ~last.block =>
      /\ last.raised = None
      /\ \A k \in 1..Len(last.atts) :
           /\ moves[last.atts[k].inv].state = "posted"
           /\ last.atts[k].status # "ok" =>
                /\ moves[last.atts[k].inv].eims_status = "failed"
                /\ moves[last.atts[k].inv].eims_last_error # None

\* action_post, block_on_error off, caught the UserError of an attempt
C17_Witness ==
    /\ last.op = "action_post"
    /\ ~last.block
    /\ last.raised = None
    /\ \E k \in 1..Len(last.atts) :
         /\ last.atts[k].raised # None
         /\ moves[last.atts[k].inv].state = "posted"
         /\ moves[last.atts[k].inv].eims_status = "failed"

\* C18: with block_on_error on, an action_post in which an attempt did not
\* end ok raises an error.
C18_BlockOnErrorSurfaces ==
    /\ last.op = "action_post"
    /\ last.block
    /\ \E k \in 1..Len(last.atts) : last.atts[k].status # "ok"
    => last.raised # None

\* C19: the error recorded for a submission answered with another status
\* than 200 is the message of the body when the body is JSON and has one,
\* else its error, else the first of its errors, else "HTTP <code>: " with
\* the first 200 characters of the body; the last also when the body is
\* not JSON or errors is empty.
C19_ErrorStringPriority ==
    \A k \in 1..Len(last.atts) :
      LET a == last.atts[k]
          o == a.o
          parsed == o.json # "malformed"
          kept == IF o.body_len > 200 THEN 200 ELSE o.body_len
      IN  a.posts = 1 /\ o.post = "response" /\ o.code # 200 =>
            a.error =
              IF parsed /\ o.message = "nonempty" THEN "<message>"
              ELSE IF parsed /\ o.message = "empty" THEN ""
              ELSE IF parsed /\ o.error THEN "<error>"
              ELSE IF parsed /\ o.errors = "nonempty" THEN "<errors[0]>"
              ELSE "HTTP " \o ToString(o.code) \o ": text[:" \o ToString(kept)
                   \o "]"

\* a non-200 answer with both message and error in its body, recorded by
\* its message
C19_Witness ==
    \E k \in 1..Len(last.atts) :
      /\ last.atts[k].posts = 1
      /\ last.atts[k].o.code = 500
      /\ last.atts[k].o.message = "nonempty"
      /\ last.atts[k].o.error
      /\ last.atts[k].error = "<message>"

\* C20: an attempt that sends the submission request has made one login
\* before, the login returned a token, and the request carries that token.
C20_FreshLoginPerAttempt ==
    \A k \in 1..Len(last.atts) :
      last.atts[k].posts = 1 =>
        /\ last.atts[k].logins = 1
        /\ last.atts[k].o.login = "ok"
        /\ last.atts[k].bearer = "Bearer " \o last.atts[k].o.token

\* a later attempt whose login returned another token than the first one's
C20_Witness ==
    /\ Len(logs) = MaxAttempts
    /\ \E k \in 1..Len(last.atts) :
         /\ last.atts[k].posts = 1
         /\ last.atts[k].o.token = "T2"
         /\ last.atts[k].bearer = "Bearer T2"

\* the log entry that the k-th run of the loop body of the last handler left
LogOf(k) == logs[Len(logs) - Len(last.atts) + k]

\* the ways a login request fails: a status other than 200, a timeout, a
\* connection failure, a 200 answer without data.accessToken
LoginFailures == {"non200", "timeout", "connection", "no_token"}

\* C21: each of the four login failures ends the attempt without a token:
\* no submission request is sent, the invoice has status failed and an
\* error text, and the log entry has state failed and an error text.
C21_LoginFailureFailsAttempt ==
    \A k \in 1..Len(last.atts) :
      (last.atts[k].logins = 1 /\ last.atts[k].o.login \in LoginFailures) =>
        /\ last.atts[k].posts = 0
        /\ last.atts[k].bearer = None
        /\ last.atts[k].status = "failed"
        /\ last.atts[k].error # None
        /\ last.atts[k].raised = None
        /\ LogOf(k).move_id = last.atts[k].inv
        /\ LogOf(k).state = "failed"
        /\ LogOf(k).error_text = last.atts[k].error
        /\ LogOf(k).http_status_code = 0

\* an attempt whose login was answered 200 without data.accessToken
C21_Witness ==
    \E k \in 1..Len(last.atts) :
      /\ last.atts[k].logins = 1
      /\ last.atts[k].o.login = "no_token"
      /\ last.atts[k].posts = 0
      /\ last.atts[k].status = "failed"

\* the submission request of the run a was answered 200 with a body that
\* parses and holds a reference number
AcceptedWithReference(a) ==
    /\ a.posts = 1
    /\ a.o.post = "response"
    /\ a.o.code = 200
    /\ a.o.json = "ok"
    /\ a.o.irn # None

\* C22: when the submission of an invoice that passed validation is answered
\* 200 with body.irn = X, the invoice ends with status ok, reference number
\* X and an acknowledgement time, and the attempt leaves exactly one log
\* entry, with state ok and irn X.
C22_AcceptedSubmission ==
    [][\A k \in 1..Len(last'.atts) :
         AcceptedWithReference(last'.atts[k]) =>
           LET i == last'.atts[k].inv
           IN  /\ last'.atts[k].status = "ok"
               /\ moves'[i].eims_status = "ok"
               /\ moves'[i].eims_irn = last'.atts[k].o.irn
               /\ moves'[i].eims_ack_date # None
               /\ Cardinality(NewLogsOn(i)) = 1
               /\ \A n \in NewLogsOn(i) :
                    /\ logs'[n].state = "ok"
                    /\ logs'[n].irn = last'.atts[k].o.irn
                    /\ logs'[n].http_status_code = 200]_vars

\* an accepted submission that stored the reference number of the answer
C22_Witness ==
    \E k \in 1..Len(last.atts) :
      /\ AcceptedWithReference(last.atts[k])
      /\ last.atts[k].o.irn = "IRN2"
      /\ moves[last.atts[k].inv].eims_irn = "IRN2"
      /\ LogOf(k).state = "ok"
      /\ LogOf(k).irn = "IRN2"

\* C23: when the submission is answered with a status S other than 200 and
\* a JSON body with a message M, the invoice ends with status failed and M as
\* its last error, a reference number that was empty is still empty, and the
\* log entry has state failed, http_status_code S and M as its error text.
C23_RejectedSubmission ==
    [][\A k \in 1..Len(last'.atts) :
         LET a == last'.atts[k]
             i == a.inv
         IN  (/\ a.posts = 1
              /\ a.o.post = "response"
              /\ a.o.code # 200
              /\ a.o.json # "malformed"
              /\ a.o.message = "nonempty") =>
               /\ moves'[i].eims_status = "failed"
               /\ moves'[i].eims_last_error = "<message>"
               /\ moves'[i].eims_error_message = "<message>"
               /\ moves[i].eims_irn = None => moves'[i].eims_irn = None
               /\ Cardinality(NewLogsOn(i)) = 1
               /\ \A n \in NewLogsOn(i) :
                    /\ logs'[n].state = "failed"
                    /\ logs'[n].http_status_code = a.o.code
                    /\ logs'[n].error_text = "<message>"
                    /\ logs'[n].irn = None]_vars

\* a submission answered 400 with a message, on an invoice without a
\* reference number
C23_Witness ==
    \E k \in 1..Len(last.atts) :
      /\ last.atts[k].posts = 1
      /\ last.atts[k].o.code = 400
      /\ last.atts[k].o.message = "nonempty"
      /\ last.atts[k].status = "failed"
      /\ moves[last.atts[k].inv].eims_irn = None
      /\ LogOf(k).http_status_code = 400

\* the login request or the submission request of the run a timed out
TimedOut(a) ==
    \/ a.logins = 1 /\ a.o.login = "timeout"
    \/ a.posts = 1 /\ a.o.post = "timeout"

\* what an attempt writes as error when the submission request, or the
\* login request, timed out
TimeoutMessages ==
    {"EIMS request timed out",
     "EIMS integration failed: " \o "EIMS login request timed out after 30 seconds"}

\* retry_failed_eims_invoices, run now, would attempt invoice i
NextSweepAttempts(i) ==
    AttemptsOn(retry_failed_eims_invoices(
                   World, [j \in Invoices |-> BaseOutcome], certs, today), i) # {}

\* the consequences of a timeout the claim C24 names
RetryableAfterTimeout(a) ==
    /\ a.status = "failed"
    /\ a.error \in TimeoutMessages
    /\ moves[a.inv].eims_status = "failed"
    /\ eims_can_retry(moves[a.inv])
    /\ NextSweepAttempts(a.inv)

C25_QrFailureKeepsSuccess ==
    \A k \in 1..Len(last.atts) :
      AcceptedWithReference(last.atts[k]) =>
        /\ last.atts[k].status = "ok"
        /\ last.atts[k].raised = None
        /\ moves[last.atts[k].inv].eims_status = "ok"
        /\ moves[last.atts[k].inv].eims_irn = last.atts[k].o.irn
        /\ moves[last.atts[k].inv].eims_last_error = None
        /\ LogOf(k).state = "ok"
        /\ LogOf(k).irn = last.atts[k].o.irn
        /\ (last.atts[k].o.qr /\ last.atts[k].o.render = "raise") =>
             moves[last.atts[k].inv].eims_qr_image = None

\* an accepted submission during which rendering the QR image raised
C25_Witness ==
    \E k \in 1..Len(last.atts) :
      /\ AcceptedWithReference(last.atts[k])
      /\ last.atts[k].o.qr
      /\ last.atts[k].o.render = "raise"
      /\ moves[last.atts[k].inv].eims_status = "ok"
      /\ moves[last.atts[k].inv].eims_qr_image = None

\* the separators of json.dumps that hold a blank
Blanks == {", ", ": ", " "}

\* in the lexemes t from the i-th on, the keys of every mapping come in
\* sorted order; ranks holds, for every mapping still open, the rank of its
\* last key (a key is the lexeme before a ":")
RECURSIVE KeysInOrder(_, _, _)
KeysInOrder(t, i, ranks) ==
    IF i > Len(t) THEN TRUE
    ELSE IF t[i] = "{" THEN KeysInOrder(t, i + 1, <<0>> \o ranks)
    ELSE IF t[i] = "}" THEN KeysInOrder(t, i + 1, Tail(ranks))
    ELSE IF i < Len(t) /\ t[i + 1] \in {":", ": "}
    THEN \E k \in KeySet :
           /\ t[i] = "\"" \o k \o "\""
           /\ key_rank(k) > Head(ranks)
           /\ KeysInOrder(t, i + 1, <<key_rank(k)>> \o Tail(ranks))
    ELSE KeysInOrder(t, i + 1, ranks)

\* C26: canonicalize_json gives two mappings of the same content at every
\* level the same bytes whatever their insertion orders, with the keys of
\* every level sorted and no blank; two mappings of which one has another
\* value under some key get different bytes.
C26_CanonicalForm ==
    last.op = "canonicalize_json" =>
      LET a == last.calls[1]
          b == last.calls[2]
      IN  /\ same_content(a.data, b.data) => a.bytes = b.bytes
          /\ differs_in_value(a.data, b.data) => a.bytes # b.bytes
          /\ \A c \in {a, b} :
               /\ KeysInOrder(c.bytes, 1, <<>>)
               /\ \A i \in 1..Len(c.bytes) : c.bytes[i] \notin Blanks

\* two mappings of the same content whose keys were inserted in another
\* order at both levels
C26_Witness ==
    /\ last.op = "canonicalize_json"
    /\ last.calls[1].data =
         dict_value(<<<<"b", dict_value(<<<<"b", int_value(1)>>,
                                          <<"a", str_value("1")>>>>)>>,
                      <<"a", int_value(1)>>>>)
    /\ last.calls[2].data =
         dict_value(<<<<"a", int_value(1)>>,
                      <<"b", dict_value(<<<<"a", str_value("1")>>,
                                          <<"b", int_value(1)>>>>)>>>>)
    /\ last.calls[1].bytes = last.calls[2].bytes
    /\ last.calls[1].bytes =
         <<"{", "\"a\"", ":", "1", ",", "\"b\"", ":",
           "{", "\"a\"", ":", "\"1\"", ",", "\"b\"", ":", "1", "}", "}">>

\* C27: action_post skips, without error, an invoice that is not an
\* outbound customer invoice of a company in Ethiopia: the invoice is posted,
\* no attempt (no login, no submission) is made on it, no log entry is
\* created for it and none of its submission fields changes.
C27_OutOfScopeSkipped ==
    [][last'.op = "action_post" =>
         \A i \in Invoices :
           (/\ moves[i].state = "draft"
            /\ moves'[i].state = "posted"
            /\ ~(moves[i].move_type = "out_invoice" /\ moves[i].country = "ET")) =>
              /\ AttemptsOn(last', i) = {}
              /\ NewLogsOn(i) = {}
              /\ eims_fields(moves'[i]) = eims_fields(moves[i])
              /\ \A k \in 1..Len(last'.trail) : last'.trail[k][1] # i
              /\ last'.raised = None]_vars

\* action_post has posted a vendor bill and left its submission state alone
C27_Witness ==
    /\ last.op = "action_post"
    /\ \E i \in Invoices :
         /\ moves[i].move_type = "in_invoice"
         /\ moves[i].state = "posted"
         /\ moves[i].eims_status = "draft"
         /\ AttemptsOn(last, i) = {}

\* C28: a run of send_to_eims that fails the validation of the prerequisites
\* leaves eims_status, eims_last_error and eims_error_message of the invoice
\* as they were: pending is written, and the error cleared, only after the
\* validation has passed.
C28_PendingAfterValidation ==
    [][\A k \in 1..Len(last'.atts) :
         last'.atts[k].raised \in PrerequisiteErrors =>
           LET i == last'.atts[k].inv
           IN  /\ moves'[i].eims_status = moves[i].eims_status
               /\ moves'[i].eims_last_error = moves[i].eims_last_error
               /\ moves'[i].eims_error_message = moves[i].eims_error_message
               /\ \A n \in 1..Len(last'.trail) :
                    last'.trail[n][1] = i => last'.trail[n][3] # "pending"]_vars

\* C29: in an expiry sweep every active certificate that has an expiry date
\* and whose days_to_expiry is 30 or less receives exactly one alert: info, warning or critical while it
\* is still valid (days_to_expiry above 0), expired when days_to_expiry is 0
\* or less.
C29_EveryDueCertificateAlerted ==
    [][last'.op = "check_certificate_expiry" =>
         \A c \in CertIds :
           (/\ certs[c].is_active
            /\ certs[c].expiry_date # NoDate
            /\ days_to_expiry(certs[c], today) <= 30) =>
             /\ Cardinality(AlertsAbout(last', c)) = 1
             /\ \A k \in AlertsAbout(last', c) :
                  IF days_to_expiry(certs[c], today) <= 0
                  THEN last'.alerts[k].alert_type = "expired"
                  ELSE last'.alerts[k].alert_type
                         \in {"info", "warning", "critical"}]_vars

\* C30: the body of every login request is the signed envelope: the request
\* object with clientId, clientSecret, apikey and tin, the signature over its
\* canonical form and the encoded certificate; no login request is sent
\* without signature and certificate.
C30_LoginCarriesEnvelope ==
    \A k \in 1..Len(last.atts) :
      last.atts[k].logins = 1 =>
        /\ DOMAIN full_payload.request = {"clientId", "clientSecret", "apikey", "tin"}
        /\ last.atts[k].login_keys = DOMAIN full_payload
        /\ "signature" \in last.atts[k].login_keys
        /\ "certificate" \in last.atts[k].login_keys

\* C31: no error of an earlier attempt survives a later one. After an
\* attempt that ended ok both error fields of the invoice are empty; after
\* one that ended failed both hold the error text of that attempt, which is
\* also in its log entry; after one that a UserError ended they are empty or
\* hold that UserError.
C31_ErrorOfThisAttemptOnly ==
    \A k \in 1..Len(last.atts) :
      LET a == last.atts[k]
          m == moves[a.inv]
      IN  /\ m.eims_last_error = m.eims_error_message
          /\ (a.raised = None /\ a.status = "ok") => m.eims_last_error = None
          /\ (a.raised = None /\ a.status = "failed") =>
               /\ m.eims_last_error = LogOf(k).error_text
               /\ m.eims_last_error = a.error
          /\ a.raised # None => m.eims_last_error \in {None, a.raised}

\* an invoice whose attempt timed out, with the error recorded, and whose
\* next attempt was accepted
C31_Witness ==
    /\ Len(logs) = MaxAttempts
    /\ logs[1].error_text = "EIMS request timed out"
    /\ logs[1].move_id = 1
    /\ \E k \in 1..Len(last.atts) :
         /\ last.atts[k].inv = 1
         /\ last.atts[k].status = "ok"
         /\ moves[1].eims_last_error = None
         /\ moves[1].eims_error_message = None

\* what the authority returns on success, as the invoice keeps it
acknowledgement(m) ==
    <<m.eims_ack_date, m.eims_irn, m.eims_qr_image, m.eims_signed_invoice>>

\* C32: an attempt that does not end ok leaves eims_ack_date, eims_irn,
\* eims_qr_image and eims_signed_invoice of the invoice unchanged, and an
\* invoice with an acknowledgement time has a log entry of state ok: an
\* attempt on it succeeded.
C32_AcknowledgedOnlyOnSuccess ==
    /\ [](\A i \in Invoices :
            moves[i].eims_ack_date # None =>
              \E n \in 1..Len(logs) :
                logs[n].move_id = i /\ logs[n].state = "ok")
    /\ [][\A i \in Invoices :
            (\A k \in AttemptsOn(last', i) : last'.atts[k].status # "ok") =>
              acknowledgement(moves'[i]) = acknowledgement(moves[i])]_vars

\* a failed attempt on an invoice that an earlier attempt had registered
C32_Witness ==
    /\ Len(logs) = MaxAttempts
    /\ logs[1].state = "ok"
    /\ logs[1].move_id = 1
    /\ moves[1].eims_ack_date = "now"
    /\ \E k \in 1..Len(last.atts) :
         /\ last.atts[k].inv = 1
         /\ last.atts[k].status = "failed"
         /\ last.atts[k].o.post = "connection"

\* C33: a submission, a retry or a health check leaves every existing log
\* entry as it is and in its place; cleanup_old_logs removes exactly the
\* entries created before the cutoff whose state is ok or failed, returns
\* how many they were and leaves every other entry unchanged.
C33_LogAppendOnly ==
    [][IF last'.op = "cleanup_old_logs"
       THEN LET keep == last'.calls[1].days_to_keep
                gone == {n \in 1..Len(logs) :
                           /\ logs[n].create_date < today - keep
                           /\ logs[n].state \in {"ok", "failed"}}
            IN  /\ logs' = SelectSeq(logs, LAMBDA lg :
                                  ~(/\ lg.create_date < today - keep
                                    /\ lg.state \in {"ok", "failed"}))
                /\ Len(logs') = Len(logs) - Cardinality(gone)
                /\ last'.calls[1].count = Cardinality(gone)
       ELSE /\ Len(logs') >= Len(logs)
            /\ \A n \in 1..Len(logs) : logs'[n] = logs[n]]_vars

\* a cleanup that removed an old entry of state failed and kept an entry of
\* the same day that never left the state draft
C33_Witness ==
    /\ last.op = "cleanup_old_logs"
    /\ last.calls[1].count = 1
    /\ Len(logs) = 1
    /\ logs[1].state = "draft"
    /\ logs[1].create_date < today - last.calls[1].days_to_keep

\* C34: create and write of a certificate whose bundle is malformed, under
\* another password or without a certificate do not raise for that: the
\* record is stored with the bundle and without an expiry date. (create
\* raises only when the constraint of one active certificate per company
\* does.)
C34_ValidationSoftFails ==
    [][(last'.op \in {"create", "write"}
        /\ last'.calls[1].pfx.kind # "valid"
        /\ last'.raised # "Only one active certificate is allowed per company") =>
          /\ last'.raised = None
          /\ Len(certs') >= last'.calls[1].id
          /\ last'.op = "create" => Len(certs') = Len(certs) + 1
          /\ certs'[last'.calls[1].id].pfx = last'.calls[1].pfx
          /\ certs'[last'.calls[1].id].expiry_date = NoDate]_vars

\* a write of a bundle under another password, stored without an expiry
\* date
C34_Witness ==
    /\ last.op = "write"
    /\ last.raised = None
    /\ last.calls[1].pfx.kind = "wrong_password"
    /\ certs[last.calls[1].id].pfx.kind = "wrong_password"
    /\ certs[last.calls[1].id].expiry_date = NoDate

\* C35: a connection test, from the settings or from the wizard, changes
\* nothing that a run of send_to_eims reads: whatever tests ran before it or
\* while it was under way, the run logs in and posts with the credentials,
\* URLs, paths, timeout and TLS flag of config.py.
C35_NoSharedConfiguration ==
    last.op = "send_to_eims" =>
      /\ last.calls[1] = read_config(ModuleConfig, LoginAttributes)
      /\ last.calls[2] = read_config(ModuleConfig, PostAttributes)

\* the errors of _validate_eims_prerequisites about the certificate
CertificateErrors ==
    {"No active EIMS certificate found for company",
     "EIMS certificate has expired"}

\* the active certificate of company co has no expiry date
UndatedCertificate(co) ==
    /\ search_active_certificate(certs, co) # 0
    /\ certs[search_active_certificate(certs, co)].expiry_date = NoDate

\* C36: an active certificate without expiry date is never taken as
\* expired: no attempt on an invoice of its company ends on an error about
\* the certificate, a retry sweep attempts every failed invoice of the
\* company that its search finds, and the expiry sweep sends no alert about
\* the certificate and leaves it active.
C36_UndatedNeverExpired ==
    [][\A co \in Companies :
         UndatedCertificate(co) =>
           LET c == search_active_certificate(certs, co)
           IN  /\ ~is_expired(certs[c], today)
               /\ \A k \in 1..Len(last'.atts) :
                    moves[last'.atts[k].inv].company_id = co =>
                      /\ last'.atts[k].raised \notin CertificateErrors
                      /\ last'.atts[k].error \notin CertificateErrors
               /\ last'.op = "retry_failed_eims_invoices" =>
                    \A i \in Invoices :
                      (retry_domain(moves[i]) /\ moves[i].company_id = co) =>
                        AttemptsOn(last', i) # {}
               /\ last'.op = "check_certificate_expiry" =>
                    /\ AlertsAbout(last', c) = {}
                    /\ certs'[c].is_active]_vars

\* a day later, a retry sweep under the undated certificate attempted a
\* failed invoice
C36_Witness ==
    /\ today = MaxDay
    /\ UndatedCertificate(1)
    /\ last.op = "retry_failed_eims_invoices"
    /\ \E k \in 1..Len(last.atts) :
         /\ last.atts[k].inv = 1
         /\ last.atts[k].logins = 1

\* C37: retry_failed_eims_invoices raises nothing; it attempts every
\* invoice its search found whose company has a valid certificate, also
\* those that come after an invoice on which send_to_eims raised; and the
\* retry_count it reports is the number of those calls of send_to_eims that
\* returned.
C37_SweepGoesOn ==
    [][last'.op = "retry_failed_eims_invoices" =>
         /\ last'.raised = None
         /\ \A i \in Invoices :
              (retry_domain(moves[i]) /\ FailedWithCertificate(i)) =>
                Cardinality(AttemptsOn(last', i)) = 1
         /\ last'.calls[1].retry_count =
              Cardinality({k \in 1..Len(last'.atts) :
                             last'.atts[k].raised = None})]_vars

\* a sweep in which send_to_eims raised on the first invoice and returned
\* on the second: one invoice is counted
C37_Witness ==
    /\ last.op = "retry_failed_eims_invoices"
    /\ Len(last.atts) = 2
    /\ last.atts[1].raised # None
    /\ last.atts[2].raised = None
    /\ last.atts[2].inv # last.atts[1].inv
    /\ last.calls[1].retry_count = 1

\* C38: action_retry_eims on an invoice whose status is not failed, or that
\* has a reference number, or that is not an outbound invoice, raises a
\* UserError and does nothing else: no attempt (no login, no submission), no
\* log entry, no invoice changed.
C38_NotRetryableRefused ==
    [][last'.op = "action_retry_eims" =>
         LET m == moves[last'.calls[1].id]
         IN  (\/ m.eims_status # "failed"
              \/ m.eims_irn # None
              \/ m.move_type # "out_invoice") =>
               /\ last'.raised = "This invoice cannot be retried for EIMS integration"
               /\ last'.atts = <<>>
               /\ last'.trail = <<>>
               /\ logs' = logs
               /\ moves' = moves]_vars

\* action_retry_eims refused an invoice that is failed and has a reference
\* number
C38_Witness ==
    /\ last.op = "action_retry_eims"
    /\ last.raised = "This invoice cannot be retried for EIMS integration"
    /\ last.atts = <<>>
    /\ moves[last.calls[1].id].eims_status = "failed"
    /\ moves[last.calls[1].id].eims_irn # None


\* C39: the log entry of an attempt agrees with the invoice as the attempt
\* left it: its state is the invoice's status, on failure its error text is
\* the invoice's last error, on success its irn is the invoice's reference
\* number.
C39_LogAgreesWithInvoice ==
    \A k \in 1..Len(last.atts) :
      /\ LogOf(k).state = last.atts[k].status
      /\ last.atts[k].status = "failed" =>
           LogOf(k).error_text = last.atts[k].error
      /\ last.atts[k].status = "ok" =>
           LogOf(k).irn = last.atts[k].irn

====
